---- MODULE Spec2Model ----
(***************************************************************************)
(* State-machine model of scripts/chat_cli.py: the ChatCLI object (its     *)
(* four token fields), the JSON config file it loads and saves, the        *)
(* start-up path of main() and ChatCLI.run(), and the interactive loop     *)
(* with the chat turn split at its network calls.  The remote API is the   *)
(* environment: every response the client code can receive (2xx bodies     *)
(* with present, null or missing fields, error statuses, transport         *)
(* failures) is drawn nondeterministically.                                *)
(***************************************************************************)
EXTENDS Integers, Sequences, FiniteSets, TLC

\* ------------------------------------------------------------------ bounds
MaxRuns == 2          \* process runs sharing the config file
MaxSessions == 2      \* sessions the server issues
MaxMsgs == 2          \* length of a message list in a server response (SpecTurn)
ShortMsgs == 0        \* the same where the runs and the config file are followed (Spec)
MaxTranscript == 2    \* length of run()'s local conversation_history

\* ------------------------------------------------------------------ values
None == "None"        \* Python None / JSON null / key absent under dict.get
Missing == "Missing"  \* a key absent from a JSON body read with data[...]

\* Python truthiness of an Optional[str] field: `if not self.user_token`
Truthy(v) == v # None /\ v # ""

Accounts == {"test@example.com", "other@example.com"}
UserTokenOf(e) == "ut:" \o e
SessionTokenOf(n) == "st:" \o ToString(n)
SessionIdOf(n) == "sid:" \o ToString(n)

Fields(ut, st, sid, em) ==
    [user_token |-> ut, session_token |-> st, session_id |-> sid, email |-> em]
NoFields == Fields(None, None, None, None)

\* The config file: absent, unparsable, or a JSON object with the four keys.
FileOf(state, f) ==
    [state |-> state, user_token |-> f.user_token, session_token |-> f.session_token,
     session_id |-> f.session_id, email |-> f.email]
FileMissing == FileOf("missing", NoFields)
FileCorrupt == FileOf("corrupt", NoFields)
FileFields(f) == Fields(f.user_token, f.session_token, f.session_id, f.email)

VARIABLES
    file,                 \* CONFIG_FILE on disk
    cli,                  \* the ChatCLI object: user_token, session_token, session_id, email
    pc,                   \* where the process is
    quick,                \* main(): args.email and args.password were given
    exit_status,          \* None while running, else the process's exit status
    runs,                 \* process runs started so far
    issued,               \* sessions the server has created so far
    user_input,           \* run(): the stripped line being handled
    history_response,     \* chat(): the response to the history GET
    messages,             \* chat(): the list that is posted
    response,             \* the response to the chat POST or to the DELETE
    reply,                \* run(): what chat() returned
    conversation_history, \* run(): length of the local transcript
    reqs,                 \* the network requests the last step issued, in order
    printed,              \* what the last step printed
    raised,               \* the exception the last step raised, None if none
    last,                 \* the ChatCLI method the last step called and what it returned
    boot,                 \* the fields as load_config left them in this run
    written,              \* the last record this run wrote to the file
    created,              \* a create_session has returned True in this run
    loaded,               \* how load_config ended in this run: "absent", "failed" or "ok"
    cli2,                 \* the fields of a second ChatCLI process on the same file
    pc2,                  \* where the second process is, "off" while there is none
    eof_errors            \* EOFErrors reported since a line was last read, modulo 2

vars == <<file, cli, pc, quick, exit_status, runs, issued, user_input,
          history_response, messages, response, reply, conversation_history,
          reqs, printed, raised, last, boot, written, created, loaded, cli2, pc2,
          eof_errors>>

\* ---------------------------------------------------------------- requests
Request(op, bearer, body) == [op |-> op, bearer |-> bearer, body |-> body]
RelayOps == {"GET messages", "POST chat", "DELETE messages"}

NoCall == [op |-> "none", ok |-> FALSE, save |-> "none"]
Call(op, ok, save) == [op |-> op, ok |-> ok, save |-> save]

\* The exception httpx raises for a response kind: raise_for_status on an
\* error status, a transport failure, or Ctrl-C while the call blocks.
RaisedBy(kind) ==
    CASE kind \in {"400", "401", "http_error"} -> "HTTPStatusError"
      [] kind = "transport_error" -> "TransportError"
      [] kind = "KeyboardInterrupt" -> "KeyboardInterrupt"
      [] OTHER -> None

\* ------------------------------------------------------------ config file
load_config_keeps_fields(f) == FileFields(f)

\* load_config: an absent file leaves the fields as __init__ set them; a file
\* json.load cannot parse raises before any field is assigned.
load_config(f) == IF f.state = "ok" THEN FileFields(f) ELSE NoFields

save_config_merging(self, f, outcome) ==
    LET keep(k) == IF self[k] = None /\ f.state = "ok" THEN f[k] ELSE self[k] IN
    CASE outcome = "ok" -> FileOf("ok", Fields(keep("user_token"), keep("session_token"),
                                               keep("session_id"), keep("email")))
      [] outcome = "open_failed" -> f
      [] outcome = "write_failed" -> FileCorrupt

\* save_config writes all four current fields.  open(..., "w") may fail
\* (file untouched) or the write may fail after the file was truncated.
SaveOutcomes == {"ok", "open_failed", "write_failed"}
save_config(self, f, outcome) ==
    CASE outcome = "ok" -> FileOf("ok", self)
      [] outcome = "open_failed" -> f
      [] outcome = "write_failed" -> FileCorrupt

SaveWarning(outcome) ==
    IF outcome = "ok" THEN {} ELSE {"Warning: Could not save config"}

\* ------------------------------------------------------------------ login
LoginResponses(e) ==
    [kind : {"401", "http_error", "transport_error"}, access_token : {None}]
    \cup [kind : {"body"}, access_token : {Missing, None, UserTokenOf(e)}]

\* login(email, password): the result of the method as a record
\* [ok, self, file, reqs, printed, raised, save].
login(self, f, e, resp, outcome) ==
    LET sent == Request("POST login", None, <<>>) IN
    IF resp.kind = "body" /\ resp.access_token # Missing
    THEN LET s2 == [self EXCEPT !.user_token = resp.access_token, !.email = e] IN
         [ok |-> TRUE, self |-> s2, file |-> save_config(s2, f, outcome), reqs |-> <<sent>>,
          printed |-> {"Logged in successfully"} \cup SaveWarning(outcome),
          raised |-> None, save |-> outcome]
    ELSE [ok |-> FALSE, self |-> self, file |-> f, reqs |-> <<sent>>,
          printed |-> {IF resp.kind = "401" THEN "Invalid email or password" ELSE "Login failed"},
          raised |-> IF resp.kind = "body" THEN "KeyError" ELSE RaisedBy(resp.kind),
          save |-> "none"]

\* --------------------------------------------------------- create_session
SessionResponses(n) ==
    [kind : {"http_error", "transport_error"}, token : {None}, session_id : {None}]
    \cup (IF n < MaxSessions
          THEN [kind : {"body"}, token : {Missing, None, SessionTokenOf(n + 1)},
                session_id : {Missing, None, SessionIdOf(n + 1)}]
          ELSE {})

\* create_session(): the try block, entered with a user token
create_session_request(self, f, resp, outcome) ==
    LET sent == Request("POST session", self.user_token, <<>>)
        failed(s, exc) == [ok |-> FALSE, self |-> s, file |-> f, reqs |-> <<sent>>,
                           printed |-> {"Failed to create session"}, raised |-> exc,
                           save |-> "none"]
    IN
    IF resp.kind # "body"
    THEN failed(self, RaisedBy(resp.kind))
    ELSE IF resp.token = Missing
    THEN failed(self, "KeyError")
    ELSE IF resp.session_id = Missing
    THEN \* KeyError on data["session_id"], after session_token was assigned
         failed([self EXCEPT !.session_token = resp.token], "KeyError")
    ELSE LET s2 == [self EXCEPT !.session_token = resp.token,
                                !.session_id = resp.session_id]
         IN
         IF resp.session_id = None
         THEN \* TypeError on self.session_id[:8], after the save
              [ok |-> FALSE, self |-> s2, file |-> save_config(s2, f, outcome),
               reqs |-> <<sent>>,
               printed |-> SaveWarning(outcome) \cup {"Failed to create session"},
               raised |-> "TypeError", save |-> outcome]
         ELSE [ok |-> TRUE, self |-> s2, file |-> save_config(s2, f, outcome),
               reqs |-> <<sent>>,
               printed |-> SaveWarning(outcome) \cup {"Session created"},
               raised |-> None, save |-> outcome]

create_session_unguarded(self, f, resp, outcome) ==
    create_session_request(self, f, resp, outcome)

\* create_session(): refused without a user token, before any request
create_session(self, f, resp, outcome) ==
    IF ~Truthy(self.user_token)
    THEN [ok |-> FALSE, self |-> self, file |-> f, reqs |-> <<>>,
          printed |-> {"Not authenticated"}, raised |-> None, save |-> "none"]
    ELSE create_session_request(self, f, resp, outcome)

\* The server has created a session whenever it answered with a body.
IssuedAfter(self, resp) ==
    IF Truthy(self.user_token) /\ resp.kind = "body" THEN issued + 1 ELSE issued

\* A save that succeeded replaces the last record this run wrote.
WrittenAfter(r) == IF r.save = "ok" THEN FileOf("ok", r.self) ELSE written

\* --------------------------------------------------- messages and input
Roles == {"user", "assistant"}
Contents == {"hi", "Hi"}
\* The messages a server list is made of: an earlier user turn and the
\* assistant's possible answers.
Msgs == {[role |-> "user", content |-> "hi"]} \cup [role : {"assistant"}, content : Contents]
MsgLists(max) == UNION {[1..n -> Msgs] : n \in 0..max}

NoResponse == [kind |-> "none", status |-> 0, messages |-> <<>>]
Response(kind, status, ms) == [kind |-> kind, status |-> status, messages |-> ms]

\* What input() can give the loop: a line, end of input, or Ctrl-C.
Lines == {"", " ", "quit", "Quit", "EXIT", "q", "clear", "CLEAR", "Hi "}
Inputs == [kind : {"line"}, text : Lines]
          \cup [kind : {"EOFError", "KeyboardInterrupt"}, text : {""}]

\* str.strip() and str.lower() on the lines above
Strip(s) == CASE s = " " -> "" [] s = "Hi " -> "Hi" [] OTHER -> s
Lower(s) == CASE s = "Quit" -> "quit" [] s = "EXIT" -> "exit" [] s = "CLEAR" -> "clear"
              [] s = "Hi" -> "hi" [] OTHER -> s
QuitCommands == {"quit", "exit", "q"}

\* -------------------------------------------------------------- start-up
\* chat()'s and run()'s locals before a line is handled
LocalsReset ==
    /\ history_response' = NoResponse
    /\ messages' = <<>>
    /\ response' = NoResponse
    /\ reply' = None

\* The effects of a login or create_session call on the object and the file.
Apply(op, r) ==
    /\ cli' = r.self
    /\ file' = r.file
    /\ reqs' = r.reqs
    /\ raised' = r.raised
    /\ last' = Call(op, r.ok, r.save)
    /\ written' = WrittenAfter(r)

Exit(status) == pc' = "exited" /\ exit_status' = status

SysExitZero == Exit("0")

\* main(): sys.exit(1) after a failed quick login or quick session creation
SysExit == Exit("1")

\* run() returns before the loop, main() returns after it: exit status 0
RunReturns == Exit("0")

NeedsSessionAlways(self) == TRUE

\* `if not self.session_token`: a session has to be created first
NeedsSession(self) == ~Truthy(self.session_token)

\* ChatCLI.__init__ on a machine with no config file yet.
Init ==
    /\ file = FileMissing
    /\ cli = load_config(FileMissing)
    /\ boot = load_config(FileMissing)
    /\ pc = "main"
    /\ quick = FALSE
    /\ exit_status = None
    /\ runs = 1
    /\ issued = 0
    /\ user_input = None
    /\ history_response = NoResponse
    /\ messages = <<>>
    /\ response = NoResponse
    /\ reply = None
    /\ conversation_history = 0
    /\ reqs = <<>>
    /\ printed = {}
    /\ raised = None
    /\ last = NoCall
    /\ written = FileMissing
    /\ created = FALSE
    /\ loaded = "absent"
    /\ cli2 = NoFields
    /\ pc2 = "off"
    /\ eof_errors = 0

\* main(): with --email and --password the quick login comes first, without
\* them run() is called at once.
Main(with_credentials) ==
    /\ pc = "main"
    /\ quick' = with_credentials
    /\ pc' = IF with_credentials THEN "quick_login" ELSE "run"
    /\ printed' = {}
    /\ UNCHANGED <<loaded, cli2, pc2, eof_errors, file, cli, exit_status, runs, issued, user_input, history_response,
                   messages, response, reply, conversation_history, reqs, raised,
                   last, boot, written, created>>

\* main(): quick login, sys.exit(1) when it fails
QuickLogin(e, resp, outcome) ==
    /\ pc = "quick_login"
    /\ LET r == login(cli, file, e, resp, outcome) IN
       /\ Apply("login", r)
       /\ printed' = r.printed
       /\ IF r.ok THEN pc' = "quick_session" /\ UNCHANGED exit_status
                  ELSE SysExit
    /\ UNCHANGED <<loaded, cli2, pc2, eof_errors, quick, runs, issued, user_input, history_response, messages,
                   response, reply, conversation_history, boot, created>>

\* main(): the session creation that follows quick login, sys.exit(1) when it fails
QuickSession(resp, outcome) ==
    /\ pc = "quick_session"
    /\ LET r == create_session(cli, file, resp, outcome) IN
       /\ Apply("create_session", r)
       /\ printed' = r.printed
       /\ issued' = IssuedAfter(cli, resp)
       /\ created' = (created \/ r.ok)
       /\ IF r.ok THEN pc' = "run" /\ UNCHANGED exit_status
                  ELSE SysExit
    /\ UNCHANGED <<loaded, cli2, pc2, eof_errors, quick, runs, user_input, history_response, messages,
                   response, reply, conversation_history, boot>>

\* run() -> authenticate(): saved credentials are used as they are, otherwise
\* the email is asked for and login() called; run() returns when it fails.
Authenticate(e, resp, outcome) ==
    /\ pc = "run"
    /\ \/ /\ Truthy(cli.user_token)
          /\ pc' = "run_session"
          /\ printed' = {"Using saved credentials"}
          /\ reqs' = <<>>
          /\ raised' = None
          /\ last' = Call("authenticate", TRUE, "none")
          /\ UNCHANGED <<cli, file, written, exit_status>>
       \/ /\ ~Truthy(cli.user_token)
          /\ LET r == login(cli, file, e, resp, outcome) IN
             /\ Apply("login", r)
             /\ IF r.ok
                THEN /\ pc' = "run_session"
                     /\ printed' = r.printed
                     /\ UNCHANGED exit_status
                ELSE /\ printed' = r.printed \cup {"Authentication failed. Exiting."}
                     /\ RunReturns
    /\ UNCHANGED <<loaded, cli2, pc2, eof_errors, quick, runs, issued, user_input, history_response, messages,
                   response, reply, conversation_history, boot, created>>

\* run(): "Create session if needed"; run() returns when it fails.
RunSession(resp, outcome) ==
    /\ pc = "run_session"
    /\ \/ /\ ~NeedsSession(cli)
          /\ pc' = "prompt"
          /\ printed' = {"Ready to chat"}
          /\ reqs' = <<>>
          /\ raised' = None
          /\ last' = NoCall
          /\ UNCHANGED <<cli, file, written, exit_status, issued, created>>
       \/ /\ NeedsSession(cli)
          /\ LET r == create_session(cli, file, resp, outcome) IN
             /\ Apply("create_session", r)
             /\ issued' = IssuedAfter(cli, resp)
             /\ created' = (created \/ r.ok)
             /\ IF r.ok
                THEN /\ pc' = "prompt"
                     /\ printed' = r.printed \cup {"Ready to chat"}
                     /\ UNCHANGED exit_status
                ELSE /\ printed' = r.printed \cup {"Failed to create session. Exiting."}
                     /\ RunReturns
    /\ UNCHANGED <<loaded, cli2, pc2, eof_errors, quick, runs, user_input, history_response, messages,
                   response, reply, conversation_history, boot>>

\* ------------------------------------------------------- interactive loop
\* The farewell of the quit commands and of the KeyboardInterrupt handler:
\* break, run() returns.
Goodbye ==
    /\ printed' = {"Goodbye!"}
    /\ RunReturns

LoopErrorFatal ==
    /\ printed' = {"Error"}
    /\ Exit("1")

\* The loop's `except Exception` handler: the error is printed and the loop
\* goes round again.
LoopError ==
    /\ printed' = {"Error"}
    /\ UNCHANGED <<pc, exit_status>>

\* run(): input(), strip, and the dispatch on the line.
ReadLine(in) ==
    /\ pc = "prompt"
    /\ LocalsReset
    /\ reqs' = <<>>
    /\ last' = NoCall
    /\ \/ /\ in.kind = "KeyboardInterrupt"
          /\ raised' = "KeyboardInterrupt"
          /\ eof_errors' = 0
          /\ Goodbye
          /\ UNCHANGED user_input
       \/ /\ in.kind = "EOFError"
          /\ raised' = "EOFError"
          /\ eof_errors' = 1 - eof_errors
          /\ LoopError
          /\ UNCHANGED user_input
       \/ /\ in.kind = "line"
          /\ raised' = None
          /\ eof_errors' = 0
          /\ IF Strip(in.text) = ""
             THEN printed' = {} /\ UNCHANGED <<pc, exit_status, user_input>>
             ELSE /\ user_input' = Strip(in.text)
                  /\ IF Lower(Strip(in.text)) \in QuitCommands
                     THEN Goodbye
                     ELSE IF Lower(Strip(in.text)) = "clear"
                     THEN printed' = {} /\ pc' = "clear" /\ UNCHANGED exit_status
                     ELSE /\ printed' = {"Thinking..."}
                          /\ pc' = IF NeedsSession(cli) THEN "chat_session" ELSE "chat_get"
                          /\ UNCHANGED exit_status
    /\ UNCHANGED <<loaded, cli2, pc2, file, cli, quick, runs, issued, conversation_history, boot,
                   written, created>>

\* run(): the clear command.  httpx.delete returns a response for any status
\* and raises only on a transport failure.
DeleteResponses == {"2xx", "error_status", "transport_error", "KeyboardInterrupt"}
Clear(kind) ==
    /\ pc = "clear"
    /\ reqs' = <<Request("DELETE messages", cli.session_token, <<>>)>>
    /\ response' = Response(kind, 0, <<>>)
    /\ raised' = RaisedBy(kind)
    /\ last' = NoCall
    /\ CASE kind = "KeyboardInterrupt" ->
              Goodbye /\ UNCHANGED <<user_input, conversation_history>>
         [] kind = "transport_error" ->
              /\ printed' = {"Failed to clear history"}
              /\ pc' = "prompt"
              /\ user_input' = None
              /\ UNCHANGED <<exit_status, conversation_history>>
         [] OTHER ->
              /\ conversation_history' = 0
              /\ printed' = {"Chat history cleared"}
              /\ pc' = "prompt"
              /\ user_input' = None
              /\ UNCHANGED exit_status
    /\ UNCHANGED <<loaded, cli2, pc2, eof_errors, file, cli, quick, runs, issued, history_response,
                   messages, reply, boot, written, created>>

\* run() after chat() returned None: `if response:` is false.  Back at the
\* prompt the handled line is dead (input() overwrites it) and is dropped.
NoReply(shown) ==
    /\ reply' = None
    /\ user_input' = None
    /\ printed' = shown \cup {"Failed to get response"}
    /\ pc' = "prompt"
    /\ UNCHANGED <<exit_status, conversation_history>>

\* chat(): no session token, so create_session() first; None when it fails.
ChatSession(resp, outcome, interrupt) ==
    /\ pc = "chat_session"
    /\ IF interrupt
       THEN /\ Truthy(cli.user_token)
            /\ reqs' = <<Request("POST session", cli.user_token, <<>>)>>
            /\ raised' = "KeyboardInterrupt"
            /\ last' = NoCall
            /\ Goodbye
            /\ UNCHANGED <<cli, file, written, issued, created, reply,
                           conversation_history, user_input>>
       ELSE LET r == create_session(cli, file, resp, outcome) IN
            /\ Apply("create_session", r)
            /\ issued' = IssuedAfter(cli, resp)
            /\ created' = (created \/ r.ok)
            /\ IF r.ok
               THEN /\ pc' = "chat_get"
                    /\ printed' = {"No active session. Creating one..."} \cup r.printed
                    /\ UNCHANGED <<exit_status, reply, conversation_history, user_input>>
               ELSE NoReply({"No active session. Creating one..."} \cup r.printed)
    /\ UNCHANGED <<loaded, cli2, pc2, eof_errors, quick, runs, history_response, messages, response, boot>>

\* chat(): the history GET, the list built from its response, and the chat
\* POST sent with that list.  Only a 200 response's "messages" are used; the
\* new user message is appended to them.
HistoryStatuses == {200, 204, 500}
HistoryResponses(max) ==
    {Response("response", st, ms) : st \in HistoryStatuses, ms \in MsgLists(max)}
    \cup {Response(k, 0, <<>>) : k \in {"bad_json", "transport_error", "KeyboardInterrupt"}}

HistoryUsedAnyStatus(hr) == hr.messages

HistoryUsed(hr) == IF hr.status = 200 THEN hr.messages ELSE <<>>
UserMessage(text) == [role |-> "user", content |-> text]

ChatGet(hr) ==
    /\ pc = "chat_get"
    /\ last' = NoCall
    /\ LET get == Request("GET messages", cli.session_token, <<>>)
           posted == Append(HistoryUsed(hr), UserMessage(user_input))
       IN
       CASE hr.kind = "KeyboardInterrupt" ->
              /\ reqs' = <<get>>
              /\ raised' = "KeyboardInterrupt"
              /\ Goodbye
              /\ UNCHANGED <<user_input, history_response, messages, reply,
                             conversation_history>>
         [] hr.kind = "response" ->
              /\ history_response' = hr
              /\ messages' = posted
              /\ reqs' = <<get, Request("POST chat", cli.session_token, posted)>>
              /\ raised' = None
              /\ pc' = "chat_recv"
              /\ printed' = {}
              /\ UNCHANGED <<user_input, exit_status, reply, conversation_history>>
         [] OTHER ->
              /\ reqs' = <<get>>
              /\ raised' = IF hr.kind = "bad_json" THEN "JSONDecodeError"
                                                    ELSE RaisedBy(hr.kind)
              /\ NoReply({"Chat request failed"})
              /\ UNCHANGED <<history_response, messages>>
    /\ UNCHANGED <<loaded, cli2, pc2, eof_errors, file, cli, quick, runs, issued, response, boot, written, created>>

\* chat(): "Extract assistant's last message"
RECURSIVE AssistantMessages(_)
AssistantMessages(ms) ==
    IF ms = <<>> THEN <<>>
    ELSE IF Head(ms).role = "assistant"
         THEN <<Head(ms)>> \o AssistantMessages(Tail(ms))
         ELSE AssistantMessages(Tail(ms))

ExtractFirst(ms) ==
    LET assistant_messages == AssistantMessages(ms) IN
    IF assistant_messages # <<>> THEN assistant_messages[1].content ELSE None

Extract(ms) ==
    LET assistant_messages == AssistantMessages(ms) IN
    IF assistant_messages # <<>>
    THEN assistant_messages[Len(assistant_messages)].content
    ELSE None

ChatResponses(max) ==
    {Response("body", 200, ms) : ms \in MsgLists(max)}
    \cup {Response(k, 0, <<>>) :
            k \in {"no_messages", "http_error", "transport_error", "KeyboardInterrupt"}}

\* chat(): the response to the POST, then run() prints the reply and extends
\* its transcript, or reports that there is none.
ChatRecv(cr) ==
    /\ pc = "chat_recv"
    /\ reqs' = <<>>
    /\ last' = NoCall
    /\ history_response' = NoResponse
    /\ messages' = <<>>
    /\ response' = cr
    /\ raised' = IF cr.kind = "no_messages" THEN "KeyError" ELSE RaisedBy(cr.kind)
    /\ CASE cr.kind = "KeyboardInterrupt" ->
              Goodbye /\ UNCHANGED <<reply, conversation_history, user_input>>
         [] cr.kind = "body" ->
              IF Truthy(Extract(cr.messages))
              THEN /\ conversation_history + 2 <= MaxTranscript
                   /\ reply' = Extract(cr.messages)
                   /\ printed' = {"Assistant"}
                   /\ conversation_history' = conversation_history + 2
                   /\ pc' = "prompt"
                   /\ user_input' = None
                   /\ UNCHANGED exit_status
              ELSE NoReply({})
         [] OTHER -> NoReply({"Chat request failed"})
    /\ UNCHANGED <<loaded, cli2, pc2, eof_errors, file, cli, quick, runs, issued, boot, written, created>>

\* ------------------------------------------------------------ next run
\* The process has ended; the CLI is started again on the same config file.
Restart ==
    /\ pc = "exited"
    /\ runs < MaxRuns
    /\ runs' = runs + 1
    /\ cli' = load_config(file)
    /\ boot' = load_config(file)
    /\ pc' = "main"
    /\ quick' = FALSE
    /\ exit_status' = None
    /\ user_input' = None
    /\ LocalsReset
    /\ conversation_history' = 0
    /\ reqs' = <<>>
    /\ printed' = IF file.state = "corrupt" THEN {"Warning: Could not load config"} ELSE {}
    /\ raised' = None
    /\ last' = NoCall
    /\ written' = FileMissing
    /\ created' = FALSE
    /\ loaded' = CASE file.state = "ok" -> "ok"
                   [] file.state = "corrupt" -> "failed"
                   [] OTHER -> "absent"
    /\ eof_errors' = 0
    /\ UNCHANGED <<file, issued, cli2, pc2>>

\* The same start when the file exists and open() or the read raises: the
\* `except Exception` of load_config prints the warning, no field is assigned.
Unreadable(f) == FileOf("unreadable", FileFields(f))

RestartUnreadable ==
    /\ pc = "exited"
    /\ runs < MaxRuns
    /\ file.state = "ok"
    /\ runs' = runs + 1
    /\ cli' = load_config(Unreadable(file))
    /\ boot' = load_config(Unreadable(file))
    /\ pc' = "main"
    /\ quick' = FALSE
    /\ exit_status' = None
    /\ user_input' = None
    /\ LocalsReset
    /\ conversation_history' = 0
    /\ reqs' = <<>>
    /\ printed' = {"Warning: Could not load config"}
    /\ raised' = None
    /\ last' = NoCall
    /\ written' = FileMissing
    /\ created' = FALSE
    /\ loaded' = "failed"
    /\ eof_errors' = 0
    /\ UNCHANGED <<file, issued, cli2, pc2>>

\* main() and run() up to the loop.
StartUp ==
    \/ \E c \in BOOLEAN : Main(c)
    \/ \E e \in Accounts : \E resp \in LoginResponses(e) : \E o \in SaveOutcomes :
         QuickLogin(e, resp, o)
    \/ \E resp \in SessionResponses(issued) : \E o \in SaveOutcomes : QuickSession(resp, o)
    \/ \E e \in Accounts : \E resp \in LoginResponses(e) : \E o \in SaveOutcomes :
         Authenticate(e, resp, o)
    \/ \E resp \in SessionResponses(issued) : \E o \in SaveOutcomes : RunSession(resp, o)

\* The handling of a line after it was read, the server's message lists at
\* most max long.
Turn(max) ==
    \/ \E k \in DeleteResponses : Clear(k)
    \/ \E resp \in SessionResponses(issued) : \E o \in SaveOutcomes : \E i \in BOOLEAN :
         ChatSession(resp, o, i)
    \/ \E hr \in HistoryResponses(max) : ChatGet(hr)
    \/ \E cr \in ChatResponses(max) : ChatRecv(cr)

\* One step of a running process.
Step(max) ==
    \/ StartUp
    \/ \E in \in Inputs : ReadLine(in)
    \/ Turn(max)

\* Successive runs of the CLI on one config file.
Next == Step(ShortMsgs) \/ Restart

Spec == Init /\ [][Next]_vars

\* One run of the CLI, from a machine with no config file.
NextTurn == Step(MaxMsgs)

SpecTurn == Init /\ [][NextTurn]_vars

\* One run whose standard input is a stream that stays at end-of-file once
\* it got there: after input() raised EOFError every later input() raises
\* it again, and every iteration of the loop reports one more error.
InputEnded == pc = "prompt" /\ raised = "EOFError"

ReadLineStream(in) ==
    /\ InputEnded => in.kind # "line"
    /\ ReadLine(in)

NextEof ==
    \/ StartUp
    \/ \E in \in Inputs : ReadLineStream(in)
    \/ Turn(ShortMsgs)

\* The process keeps taking steps while it can; nothing obliges the user to
\* press Ctrl-C.
SpecEof ==
    /\ Init
    /\ [][NextEof]_vars
    /\ WF_vars(NextEof /\ raised' # "KeyboardInterrupt")

\* A second CLI process started by the same user on the same config file
\* (no --email/--password), followed through run() up to its prompt.  It
\* runs the same code: load_config, authenticate, the session check.
own == <<cli, pc, quick, exit_status, runs, user_input, history_response, messages,
         response, reply, conversation_history, reqs, printed, raised, last, boot,
         written, created, loaded, eof_errors>>

PeerStart ==
    /\ pc2 = "off"
    /\ cli2' = load_config(file)
    /\ pc2' = "run"
    /\ UNCHANGED <<own, file, issued>>

PeerAuthenticate(e, resp, outcome) ==
    /\ pc2 = "run"
    /\ IF Truthy(cli2.user_token)
       THEN pc2' = "run_session" /\ UNCHANGED <<cli2, file>>
       ELSE LET r == login(cli2, file, e, resp, outcome) IN
            /\ cli2' = r.self
            /\ file' = r.file
            /\ pc2' = IF r.ok THEN "run_session" ELSE "exited"
    /\ UNCHANGED <<own, issued>>

PeerRunSession(resp, outcome) ==
    /\ pc2 = "run_session"
    /\ IF ~NeedsSession(cli2)
       THEN pc2' = "prompt" /\ UNCHANGED <<cli2, file, issued>>
       ELSE LET r == create_session(cli2, file, resp, outcome) IN
            /\ cli2' = r.self
            /\ file' = r.file
            /\ issued' = IssuedAfter(cli2, resp)
            /\ pc2' = IF r.ok THEN "prompt" ELSE "exited"
    /\ UNCHANGED own

\* Two processes, each followed from its start to its prompt, their steps
\* interleaved in any order; the file is not locked.
NextTwo ==
    \/ StartUp
    \/ PeerStart
    \/ \E e \in Accounts : \E resp \in LoginResponses(e) : \E o \in SaveOutcomes :
         PeerAuthenticate(e, resp, o)
    \/ \E resp \in SessionResponses(issued) : \E o \in SaveOutcomes : PeerRunSession(resp, o)

SpecTwo == Init /\ [][NextTwo]_vars

\* Successive runs where the file may also be unreadable when a run starts.
NextStore == Step(ShortMsgs) \/ Restart \/ RestartUnreadable

SpecStore == Init /\ [][NextStore]_vars

\* ================================================================ claims
InLoop == pc \in {"prompt", "clear", "chat_session", "chat_get", "chat_recv"}
SessionRequested == \E i \in DOMAIN reqs : reqs[i].op = "POST session"
ChatPosted == \E i \in DOMAIN reqs : reqs[i].op = "POST chat"

\* C1: every history GET, chat POST and clear DELETE carries a session token
\* that is not absent; when a turn began without one (the history fetch comes
\* right after a create_session call), that call succeeded and its result is
\* in the config file before the fetch; after a failed create_session the
\* turn issues no relay request.
C1_RelayOnlyWithSession ==
    /\ \A i \in DOMAIN reqs : reqs[i].op \in RelayOps => reqs[i].bearer # None
    /\ (pc = "chat_get" /\ last.op = "create_session") =>
          (last.ok /\ file = FileOf("ok", cli))
    /\ (InLoop /\ last.op = "create_session" /\ ~last.ok) =>
          (pc = "prompt" /\ \A i \in DOMAIN reqs : reqs[i].op \notin RelayOps)

\* C2: a create_session call made while no user token is held returns
\* failure with "Not authenticated", issues no request, and leaves the
\* object's fields and the config file as they were.
CreateSessionCalled ==
    \/ pc \in {"quick_session", "chat_session"}
    \/ pc = "run_session" /\ cli.session_token = None
C2_RefusedWithoutUserToken ==
    [][(CreateSessionCalled /\ cli.user_token = None) =>
         /\ last' = Call("create_session", FALSE, "none")
         /\ "Not authenticated" \in printed'
         /\ reqs' = <<>>
         /\ issued' = issued
         /\ cli' = cli
         /\ file' = file]_vars
C2_Witness ==
    /\ last.op = "create_session" /\ ~last.ok
    /\ cli.user_token = None
    /\ "Not authenticated" \in printed

\* C3: the list a turn posts is the history used followed by the new user
\* message as its last element; the history used is the messages of a 200
\* history response in their order, and empty for any other status, so that
\* the posted list then holds exactly one message.
C3_PostedList ==
    \A i \in DOMAIN reqs : reqs[i].op = "POST chat" =>
        LET body == reqs[i].body
            n == Len(body)
        IN /\ n >= 1
           /\ body[n] = [role |-> "user", content |-> user_input]
           /\ history_response.kind = "response"
           /\ IF history_response.status = 200
              THEN /\ n = Len(history_response.messages) + 1
                   /\ \A k \in 1..(n - 1) : body[k] = history_response.messages[k]
              ELSE n = 1
C3_Witness ==
    /\ ChatPosted
    /\ history_response.status # 200
    /\ history_response.messages # <<>>
    /\ Len(messages) = 1

\* C4: after a chat response with a message list, the reply is the content
\* of the last assistant-role message of that list; when the list has no
\* assistant message the reply is absent, no "Chat request failed" is
\* reported, nothing was raised, and the loop is back at its prompt.
C4_LastAssistantReply ==
    response.kind = "body" =>
        LET ms == response.messages
            idx == {i \in DOMAIN ms : ms[i].role = "assistant"}
        IN /\ pc = "prompt"
           /\ raised = None
           /\ "Chat request failed" \notin printed
           /\ IF idx = {}
              THEN reply = None
              ELSE \E i \in idx : /\ \A j \in idx : j <= i
                                  /\ reply = ms[i].content
C4_Witness ==
    /\ response.kind = "body"
    /\ response.messages # <<>>
    /\ \A i \in DOMAIN response.messages : response.messages[i].role # "assistant"
    /\ reply = None
    /\ pc = "prompt"

\* C5 as stated: in a run whose loaded record holds a session token no
\* create_session request is issued on any start-up path, and the saved
\* session stays the one in use.
C5_NoSessionRequestWithSavedSession ==
    boot.session_token # None =>
        /\ ~SessionRequested
        /\ cli.session_token = boot.session_token
\* C5 amended: in a run started without --email/--password whose loaded
\* record holds a session token, no create_session request is issued and the
\* saved session token and id stay the ones in use.
C5_InteractiveRunReusesSavedSession ==
    (boot.session_token # None /\ ~quick) =>
        /\ ~SessionRequested
        /\ ~created
        /\ cli.session_token = boot.session_token
        /\ cli.session_id = boot.session_id
C5_Witness ==
    /\ boot.session_token # None
    /\ ~quick
    /\ pc = "chat_recv"

\* C6: within one run at most one create_session succeeds, and after it has
\* succeeded session_token and session_id keep their values.
C6_OneSessionPerRun ==
    [][(created /\ runs' = runs) =>
         /\ ~(SessionRequested' /\ last'.op = "create_session" /\ last'.ok)
         /\ cli'.session_token = cli.session_token
         /\ cli'.session_id = cli.session_id]_vars

\* C7: the DELETE of the clear command carries the session token; the success
\* message and the transcript reset come only with a 2xx response, an error
\* status or a transport failure shows the error message instead; either way
\* the loop is back at its prompt.
C7_ClearReportsFailure ==
    (\E i \in DOMAIN reqs : reqs[i].op = "DELETE messages") =>
        /\ reqs[1].bearer = cli.session_token
        /\ response.kind = "2xx" =>
              ("Chat history cleared" \in printed /\ conversation_history = 0 /\ pc = "prompt")
        /\ response.kind \in {"error_status", "transport_error"} =>
              /\ "Chat history cleared" \notin printed
              /\ "Failed to clear history" \in printed
              /\ pc = "prompt"

\* C8: inside the loop an exception other than KeyboardInterrupt, and a
\* failed create_session, are reported and lead back to the prompt; the loop
\* is left only on a quit command in any letter case or on KeyboardInterrupt.
ErrorReports == {"Error", "Failed to get response", "Failed to clear history"}
C8_LoopSurvivesErrors ==
    [][InLoop =>
         /\ raised' \notin {None, "KeyboardInterrupt"} =>
               (pc' = "prompt" /\ exit_status' = None /\ printed' \cap ErrorReports # {})
         /\ (last'.op = "create_session" /\ ~last'.ok) =>
               (pc' = "prompt" /\ exit_status' = None /\ printed' \cap ErrorReports # {})
         /\ pc' = "exited" =>
               \/ raised' = "KeyboardInterrupt"
               \/ /\ raised' = None
                  /\ pc = "prompt"
                  /\ user_input' \in {"quit", "Quit", "EXIT", "q"}]_vars
C8_Witness ==
    /\ pc = "prompt"
    /\ raised = "HTTPStatusError"
    /\ response.kind = "http_error"
    /\ "Chat request failed" \in printed

\* C9 as stated: a failed request ends the process, with status 1, at the
\* quick login and the quick session creation, and nowhere else.
Failed ==
    \/ raised \notin {None, "KeyboardInterrupt"}
    \/ last.op \in {"login", "create_session"} /\ ~last.ok
C9_OnlyQuickFailuresEndTheProcess ==
    [][Failed' =>
         IF pc \in {"quick_login", "quick_session"}
         THEN pc' = "exited" /\ exit_status' = "1"
         ELSE pc' # "exited"]_vars
\* C9 amended: a failed quick login or quick session creation ends the
\* process with status 1, and status 1 arises nowhere else; a failed login or
\* session creation at the start of run() ends it with status 0; a failure
\* while a line is handled leads back to the prompt.
C9_WhereFailuresEndTheProcess ==
    [][/\ Failed' =>
            CASE pc \in {"quick_login", "quick_session"} ->
                   pc' = "exited" /\ exit_status' = "1"
              [] pc \in {"run", "run_session"} ->
                   pc' = "exited" /\ exit_status' = "0"
              [] OTHER ->
                   InLoop /\ pc' = "prompt" /\ exit_status' = None
       /\ exit_status' = "1" =>
            (Failed' /\ pc \in {"quick_login", "quick_session"})]_vars
C9_Witness ==
    /\ pc = "exited"
    /\ exit_status = "0"
    /\ last.op = "login" /\ ~last.ok
    /\ "Authentication failed. Exiting." \in printed

\* C10: after a successful login or create_session whose save succeeded the
\* file holds the four in-memory fields, and the in-memory fields never
\* differ from the last record this run wrote.
C10_MemoryMatchesRecord ==
    /\ (last.op \in {"login", "create_session"} /\ last.ok /\ last.save = "ok") =>
          file = FileOf("ok", cli)
    /\ written.state = "ok" => FileFields(written) = cli

\* C11: the record is merged, never clobbered: a save that fails leaves every
\* field the file held readable with its old value, and in a run whose load
\* failed a save does not replace a field the file held by an absent one.
FieldNames == {"user_token", "session_token", "session_id", "email"}
C11_SavesMergeNotClobber ==
    [][/\ (file.state = "ok" /\ last'.save \in {"open_failed", "write_failed"}) =>
             /\ file'.state = "ok"
             /\ \A k \in FieldNames : file'[k] = file[k]
       /\ (file.state = "ok" /\ loaded = "failed" /\ last'.save = "ok") =>
             \A k \in FieldNames : file[k] # None => file'[k] # None]_vars

\* C12 as stated: when the file is absent or cannot be loaded the load
\* raises nothing and leaves all four fields absent, and the first request of
\* the run is the login that authenticate() asks for interactively.
LoadLeftNothing ==
    loaded # "ok" =>
        /\ boot = NoFields
        /\ pc = "main" => (cli = NoFields /\ raised = None /\ exit_status = None)
FirstRequest ==
    loaded # "ok" /\ cli = NoFields /\ runs' = runs /\ reqs' # <<>>
C12_InteractiveLoginFirst ==
    /\ []LoadLeftNothing
    /\ [][FirstRequest =>
            /\ pc = "run"
            /\ last'.op = "login"
            /\ reqs' = <<Request("POST login", None, <<>>)>>]_vars
\* C12 amended: the same, where the first request is the interactive login
\* in a run without --email/--password and the quick login of main() in a
\* run with them.
C12_LoginFirstAfterFailedLoad ==
    /\ []LoadLeftNothing
    /\ [][FirstRequest =>
            /\ pc = IF quick THEN "quick_login" ELSE "run"
            /\ last'.op = "login"
            /\ reqs' = <<Request("POST login", None, <<>>)>>]_vars
C12_Witness ==
    /\ loaded = "failed"
    /\ file.state = "ok"
    /\ ~quick
    /\ pc = "run_session"
    /\ last.op = "login"
    /\ boot = NoFields

\* C13: a session token held for one account is not kept, in memory or in
\* the saved record, by a successful login as a different account.
LoginAsDifferentAccount ==
    /\ last'.op = "login" /\ last'.ok
    /\ cli.email # None /\ cli'.email # cli.email
    /\ cli.session_token # None
C13_SessionBelongsToAccount ==
    [][LoginAsDifferentAccount =>
         /\ cli'.session_token # cli.session_token
         /\ file'.state = "ok" => file'.session_token # cli.session_token]_vars

\* C14: a login or create_session that reports failure leaves the four
\* in-memory fields and the saved record as they were before the call.
C14_FailureChangesNothing ==
    [][(last'.op \in {"login", "create_session"} /\ ~last'.ok) =>
         (cli' = cli /\ file' = file)]_vars

\* C15: once the input has reached end-of-file the loop eventually ends.
C15_LoopEndsAtEndOfInput == InputEnded ~> (pc = "exited")

\* C16: with two processes on one config file every save replaces the whole
\* file by the fields of the process that saves, whatever the other process
\* saved since this one loaded; the witness is a lost update: the record with
\* the session the first process saved has been replaced by the second one's.
C16_SaveReplacesWholeRecord ==
    [][file' # file =>
         \/ file'.state = "corrupt"
         \/ file' = FileOf("ok", IF pc2' # pc2 THEN cli2' ELSE cli')]_vars
C16_Witness ==
    /\ written.state = "ok"
    /\ written.session_token # None
    /\ cli.session_token = written.session_token
    /\ file.state = "ok"
    /\ file = FileOf("ok", cli2)
    /\ cli2.user_token # None
    /\ file.session_token # written.session_token
    /\ file.session_id # written.session_id

====
